---- MODULE Spec2Model ----
\* The insecure chttp2 client connector and channel factory of
\* src/core/ext/transport/chttp2/client/insecure/channel_create.c,
\* as a state machine: one connector, the raw connect, the initial-bytes
\* write and the handshake pipeline it drives, and the channel entry point.
EXTENDS Integers, Sequences, FiniteSets, TLC

\* ---------------------------------------------------------------- bounds

\* connect() calls accepted on the one connector
MaxAttempts == 2
\* handshakers in a pipeline of PipelineSpec
MaxHandshakers == 2

\* ---------------------------------------------------------------- values

\* A null pointer to a named object (closure, result slot, args, string).
NULL == "NULL"
\* A null endpoint or transport handle.
NoHandle == 0

GRPC_ERROR_NONE == [src |-> "none", idx |-> 0, code |-> "ok"]
\* errors of the raw connect collaborator
ConnectErrors ==
  {[src |-> "tcp", idx |-> 0, code |-> cd] : cd \in {"refused", "timeout"}}
\* the error of handshaker k
HandshakerError(k, cd) == [src |-> "handshaker", idx |-> k, code |-> cd]
HandshakeCodes == {"rejected", "deadline"}
\* errors of the endpoint write
WriteResults == {GRPC_ERROR_NONE, [src |-> "write", idx |-> 0, code |-> "reset"]}

GRPC_STATUS_INTERNAL == 13

\* inputs of connect()
Closures == {"n1", "n2"}
closure_cb(n) == n \in Closures
Slots == {"r1", "r2"}
ChannelArgs == {"argsA", "argsB"}
\* A caller of connect() passes its own closure, its own result object and
\* its own channel args.
Callers ==
  {[notify |-> "n1", result |-> "r1", channel_args |-> "argsA"],
   [notify |-> "n2", result |-> "r2", channel_args |-> "argsB"]}
InitialStrings == {<< >>, <<"x">>}
Deadlines == {30}
Addrs == {"addr"}

\* inputs of the factory
Targets == {"host:1"}
ServerNames == {"srv", "srv2"}
ProxyNames == {NULL, "proxy:8"}

\* a zeroed grpc_connect_out_args
ZeroResult == [transport |-> NoHandle, channel_args |-> NULL]
\* what a slot may hold before the connector writes it
StaleResult == [transport |-> 9, channel_args |-> "stale"]

\* a zeroed grpc_connect_in_args
ZeroArgs ==
  [addr |-> NULL, deadline |-> 0, initial_connect_string |-> << >>,
   channel_args |-> NULL, interested_parties |-> NULL]

GRPC_SLICE_IS_EMPTY(s) == Len(s) = 0

\* ---------------------------------------------------------------- state

VARIABLES
  c,             \* the connector struct, and whether it is allocated
  mgr,           \* the handshake manager the connector owns
  slots,         \* the caller's grpc_connect_out_args objects
  sched,         \* closures handed to grpc_exec_ctx_sched, in order
  transports,    \* the chttp2 transports created, in order
  endpoints,     \* who holds each endpoint the raw connect produced
  events,        \* the calls made to the collaborators, in order
  tcp_pending,   \* a raw connect is outstanding
  write_pending, \* an initial-bytes write is outstanding
  attempt,       \* number of connect() calls accepted
  calls,         \* the arguments of each accepted connect() call
  aborted,       \* a GPR_ASSERT failed: the process is gone
  subchannel,    \* the subchannel that owns the connector
  http_proxy,    \* what grpc_get_http_proxy_server finds in the environment
  channel,       \* what grpc_insecure_channel_create returned last
  shutdown_called \* shutdown() has been called on the connector

vars ==
  <<c, mgr, slots, sched, transports, endpoints, events, tcp_pending,
    write_pending, attempt, calls, aborted, subchannel, http_proxy, channel,
    shutdown_called>>

\* The pieces of state the connector's functions read and write.
World ==
  [c |-> c, mgr |-> mgr, slots |-> slots, sched |-> sched,
   transports |-> transports, endpoints |-> endpoints, events |-> events,
   tcp_pending |-> tcp_pending, write_pending |-> write_pending,
   attempt |-> attempt, calls |-> calls, aborted |-> aborted]

SetWorld(w) ==
  /\ c' = w.c
  /\ mgr' = w.mgr
  /\ slots' = w.slots
  /\ sched' = w.sched
  /\ transports' = w.transports
  /\ endpoints' = w.endpoints
  /\ events' = w.events
  /\ tcp_pending' = w.tcp_pending
  /\ write_pending' = w.write_pending
  /\ attempt' = w.attempt
  /\ calls' = w.calls
  /\ aborted' = w.aborted

\* One call to a collaborator, recorded in order.
Event(op, att, ep, k, err) ==
  [op |-> op, att |-> att, ep |-> ep, k |-> k, err |-> err]
LogErr(w, op, ep, k, err) ==
  [w EXCEPT !.events = Append(@, Event(op, w.attempt, ep, k, err))]
Log(w, op, ep, k) == LogErr(w, op, ep, k, GRPC_ERROR_NONE)

NoConnector ==
  [alloc |-> "none", refs |-> 0, notify |-> NULL, args |-> ZeroArgs,
   result |-> NULL, tcp |-> NoHandle, initial_string_buffer |-> << >>]

NoManager ==
  [alloc |-> "none", handshakers |-> << >>, index |-> 0, running |-> FALSE,
   runs |-> 0, endpoint |-> NoHandle, args |-> NULL, deadline |-> 0]

\* ---------------------------------------------------------------- collaborators

\* grpc_exec_ctx_sched: the closure is queued with its error. The entry also
\* records the attempt and what the result slot held at that moment.
grpc_exec_ctx_sched(w, closure, error) ==
  LET w1 == LogErr(w, "exec_ctx_sched", NoHandle, 0, error)
  IN [w1 EXCEPT !.sched =
        Append(@, [closure |-> closure, error |-> error, att |-> w.attempt,
                   slot |-> w.c.result, result |-> w.slots[w.c.result],
                   stored |-> w.c.notify])]

\* grpc_create_chttp2_transport: a new transport that owns the endpoint.
grpc_create_chttp2_transport(w, args, endpoint, is_client) ==
  LET w1 == Log(w, "create_transport", endpoint, 0)
  IN [w1 EXCEPT
        !.transports =
          Append(@, [endpoint |-> endpoint, args |-> args,
                     is_client |-> is_client, reading |-> FALSE,
                     read_buffer |-> << >>]),
        !.endpoints[endpoint] = "transport"]

\* the handle of the transport created last
LastTransport(w) == Len(w.transports)

grpc_chttp2_transport_start_reading(w, t, read_buffer) ==
  LET w1 == Log(w, "start_reading", w.transports[t].endpoint, 0)
  IN [w1 EXCEPT !.transports[t].reading = TRUE,
                !.transports[t].read_buffer = read_buffer]

grpc_channel_args_destroy(w, args) == Log(w, "channel_args_destroy", NoHandle, 0)

gpr_free_read_buffer(w, read_buffer) == Log(w, "free_read_buffer", NoHandle, 0)

grpc_handshake_manager_destroy(w) ==
  LET w1 == Log(w, "handshake_manager_destroy", NoHandle, 0)
  IN [w1 EXCEPT !.mgr.alloc = "destroyed"]

\* grpc_endpoint_write: the bytes go out on the endpoint and the closure is
\* called when the write completes.
grpc_endpoint_write(w, tcp, buffer) ==
  LET w1 == Log(w, "endpoint_write", tcp, 0)
  IN [w1 EXCEPT !.write_pending = TRUE]

\* grpc_tcp_client_connect: the raw connect is started.
grpc_tcp_client_connect(w) ==
  LET w1 == Log(w, "tcp_client_connect", NoHandle, 0)
  IN [w1 EXCEPT !.tcp_pending = TRUE]

\* ---------------------------------------------------------------- connector

connector_ref(w) == [w EXCEPT !.c.refs = @ + 1]

connector_unref(w) ==
  IF w.c.refs = 1
  THEN LET w1 == grpc_handshake_manager_destroy([w EXCEPT !.c.refs = 0])
       IN [w1 EXCEPT !.c.alloc = "freed"]
  ELSE [w EXCEPT !.c.refs = @ - 1]

\* on_initial_connect_string_sent keeping the reference taken for the write
on_initial_connect_string_sent_keep_ref(w, error) == w

on_initial_connect_string_sent(w, error) == connector_unref(w)

\* c->result->transport = t
store_transport(w, t) ==
  LET w1 == Log(w, "store_transport", w.transports[t].endpoint, 0)
  IN [w1 EXCEPT !.slots[w.c.result].transport = t]

\* c->result->channel_args = args
store_channel_args(w, args) ==
  LET w1 == Log(w, "store_channel_args", NoHandle, 0)
  IN [w1 EXCEPT !.slots[w.c.result].channel_args = args]

\* on_handshake_done with the error branch keeping the read buffer
on_handshake_done_leak(w, endpoint, args, read_buffer, error) ==
  LET w1 ==
        IF error # GRPC_ERROR_NONE
        THEN grpc_channel_args_destroy(w, args)
        ELSE LET a == grpc_create_chttp2_transport(w, args, endpoint, 1)
                 t == LastTransport(a)
                 b == store_transport(a, t)
                 d == grpc_chttp2_transport_start_reading(
                        b, b.slots[b.c.result].transport, read_buffer)
             IN store_channel_args(d, args)
      notify == w1.c.notify
      w2 == [w1 EXCEPT !.c.notify = NULL]
  IN grpc_exec_ctx_sched(w2, notify, error)

\* on_handshake_done reporting success whatever the handshake reported
on_handshake_done_drop_error(w, endpoint, args, read_buffer, error) ==
  LET w1 ==
        IF error # GRPC_ERROR_NONE
        THEN gpr_free_read_buffer(grpc_channel_args_destroy(w, args), read_buffer)
        ELSE LET a == grpc_create_chttp2_transport(w, args, endpoint, 1)
                 t == LastTransport(a)
                 b == store_transport(a, t)
                 d == grpc_chttp2_transport_start_reading(
                        b, b.slots[b.c.result].transport, read_buffer)
             IN store_channel_args(d, args)
      notify == w1.c.notify
      w2 == [w1 EXCEPT !.c.notify = NULL]
  IN grpc_exec_ctx_sched(w2, notify, GRPC_ERROR_NONE)

\* on_handshake_done scheduling notify before it fills the result slot
on_handshake_done_notify_first(w, endpoint, args, read_buffer, error) ==
  LET notify == w.c.notify
      w0 == grpc_exec_ctx_sched(w, notify, error)
      w1 ==
        IF error # GRPC_ERROR_NONE
        THEN gpr_free_read_buffer(grpc_channel_args_destroy(w0, args), read_buffer)
        ELSE LET a == grpc_create_chttp2_transport(w0, args, endpoint, 1)
                 t == LastTransport(a)
                 b == store_transport(a, t)
                 d == grpc_chttp2_transport_start_reading(
                        b, b.slots[b.c.result].transport, read_buffer)
             IN store_channel_args(d, args)
  IN [w1 EXCEPT !.c.notify = NULL]

on_handshake_done(w, endpoint, args, read_buffer, error) ==
  LET w1 ==
        IF error # GRPC_ERROR_NONE
        THEN gpr_free_read_buffer(grpc_channel_args_destroy(w, args), read_buffer)
        ELSE LET a == grpc_create_chttp2_transport(w, args, endpoint, 1)
                 t == LastTransport(a)
                 b == store_transport(a, t)
                 d == grpc_chttp2_transport_start_reading(
                        b, b.slots[b.c.result].transport, read_buffer)
             IN store_channel_args(d, args)
      notify == w1.c.notify
      w2 == [w1 EXCEPT !.c.notify = NULL]
  IN grpc_exec_ctx_sched(w2, notify, error)

\* ---------------------------------------------------------------- handshake manager

grpc_handshake_manager_create ==
  [alloc |-> "live", handshakers |-> << >>, index |-> 0, running |-> FALSE,
   runs |-> 0, endpoint |-> NoHandle, args |-> NULL, deadline |-> 0]

grpc_handshake_manager_add(m, h) == [m EXCEPT !.handshakers = Append(@, h)]

\* The manager calls the on_done callback it was given, with the final
\* endpoint, the channel args and the bytes read but not consumed (their
\* number is recorded with the call).
on_done(w, endpoint, args, read_buffer, error) ==
  on_handshake_done(LogErr(w, "on_done", endpoint, Len(read_buffer), error),
                    endpoint, args, read_buffer, error)

grpc_http_connect_handshaker_create(proxy_server, server_name) ==
  [kind |-> "http_connect", proxy_server |-> proxy_server,
   server_name |-> server_name]

\* Handshaker k is started on the manager's endpoint and writes its request.
call_next_handshaker(w, k) ==
  LET w1 == Log(w, "handshaker_start", w.mgr.endpoint, k)
      w2 == Log(w1, "handshaker_write", w.mgr.endpoint, k)
  IN [w2 EXCEPT !.mgr.index = k, !.mgr.running = TRUE]

\* do_handshake: an empty pipeline completes at once with the endpoint it was
\* given; otherwise the first handshaker is started.
grpc_handshake_manager_do_handshake(w, endpoint, args, deadline, acceptor) ==
  LET w1 == Log(w, "do_handshake", endpoint, 0)
      w2 == [w1 EXCEPT !.mgr.runs = @ + 1, !.mgr.endpoint = endpoint,
                       !.mgr.args = args, !.mgr.deadline = deadline,
                       !.mgr.index = 0,
                       !.endpoints[endpoint] = "handshake_mgr"]
  IN IF Len(w2.mgr.handshakers) = 0
     THEN on_done([w2 EXCEPT !.endpoints[endpoint] = "connector"],
                  endpoint, args, << >>, GRPC_ERROR_NONE)
     ELSE call_next_handshaker(w2, 1)

\* Handshaker mgr.index completes. On success the next one is started, or
\* after the last one on_done gets the endpoint and the bytes already read.
\* On failure the rest are skipped, the endpoint is closed and on_done gets
\* the error.
handshaker_done(w, ok, code, leftover) ==
  LET k == w.mgr.index
      ep == w.mgr.endpoint
      error == IF ok THEN GRPC_ERROR_NONE ELSE HandshakerError(k, code)
      w0 == LogErr(w, "handshaker_done", ep, k, error)
  IN IF ok
     THEN IF k < Len(w.mgr.handshakers)
          THEN call_next_handshaker(w0, k + 1)
          ELSE on_done(
                 [w0 EXCEPT !.mgr.running = FALSE,
                            !.endpoints[ep] = "connector"],
                 ep, w.mgr.args, leftover, GRPC_ERROR_NONE)
     ELSE LET w1 == Log(w0, "endpoint_close", ep, k)
          IN on_done(
               [w1 EXCEPT !.mgr.running = FALSE, !.endpoints[ep] = "closed"],
               NoHandle, w.mgr.args, leftover, error)

\* ---------------------------------------------------------------- connector, continued

\* connected without the memset of the failure branch
connected_no_memset(w, error) ==
  LET tcp == w.c.tcp
  IN IF tcp # NoHandle
     THEN IF ~GRPC_SLICE_IS_EMPTY(w.c.args.initial_connect_string)
          THEN LET w1 == [w EXCEPT !.c.initial_string_buffer =
                                     w.c.args.initial_connect_string]
                   w2 == connector_ref(w1)
               IN grpc_endpoint_write(w2, tcp, w2.c.initial_string_buffer)
          ELSE grpc_handshake_manager_do_handshake(
                 w, tcp, w.c.args.channel_args, w.c.args.deadline, NULL)
     ELSE LET notify == w.c.notify
              w2 == [w EXCEPT !.c.notify = NULL]
          IN grpc_exec_ctx_sched(w2, notify, error)

\* connected starting the handshake right after issuing the write
connected_no_else(w, error) ==
  LET tcp == w.c.tcp
  IN IF tcp # NoHandle
     THEN LET w3 ==
                IF ~GRPC_SLICE_IS_EMPTY(w.c.args.initial_connect_string)
                THEN LET w1 == [w EXCEPT !.c.initial_string_buffer =
                                           w.c.args.initial_connect_string]
                         w2 == connector_ref(w1)
                     IN grpc_endpoint_write(w2, tcp, w2.c.initial_string_buffer)
                ELSE w
          IN grpc_handshake_manager_do_handshake(
               w3, tcp, w.c.args.channel_args, w.c.args.deadline, NULL)
     ELSE LET w1 == [w EXCEPT !.slots[w.c.result] = ZeroResult]
              notify == w1.c.notify
              w2 == [w1 EXCEPT !.c.notify = NULL]
          IN grpc_exec_ctx_sched(w2, notify, error)

\* connected scheduling notify on failure without clearing the stored pointer
connected_keep_notify(w, error) ==
  LET tcp == w.c.tcp
  IN IF tcp # NoHandle
     THEN IF ~GRPC_SLICE_IS_EMPTY(w.c.args.initial_connect_string)
          THEN LET w1 == [w EXCEPT !.c.initial_string_buffer =
                                     w.c.args.initial_connect_string]
                   w2 == connector_ref(w1)
               IN grpc_endpoint_write(w2, tcp, w2.c.initial_string_buffer)
          ELSE grpc_handshake_manager_do_handshake(
                 w, tcp, w.c.args.channel_args, w.c.args.deadline, NULL)
     ELSE LET w1 == [w EXCEPT !.slots[w.c.result] = ZeroResult]
          IN grpc_exec_ctx_sched(w1, w1.c.notify, error)

\* connected starting the handshake without waiting for the write it issues
connected_write_and_handshake(w, error) ==
  LET tcp == w.c.tcp
  IN IF tcp # NoHandle
     THEN IF ~GRPC_SLICE_IS_EMPTY(w.c.args.initial_connect_string)
          THEN LET w1 == [w EXCEPT !.c.initial_string_buffer =
                                     w.c.args.initial_connect_string]
                   w2 == connector_ref(w1)
                   w3 == grpc_handshake_manager_do_handshake(
                           w2, tcp, w.c.args.channel_args, w.c.args.deadline, NULL)
               IN grpc_endpoint_write(w3, tcp, w3.c.initial_string_buffer)
          ELSE grpc_handshake_manager_do_handshake(
                 w, tcp, w.c.args.channel_args, w.c.args.deadline, NULL)
     ELSE LET w1 == [w EXCEPT !.slots[w.c.result] = ZeroResult]
              notify == w1.c.notify
              w2 == [w1 EXCEPT !.c.notify = NULL]
          IN grpc_exec_ctx_sched(w2, notify, error)

connected(w, error) ==
  LET tcp == w.c.tcp
  IN IF tcp # NoHandle
     THEN IF ~GRPC_SLICE_IS_EMPTY(w.c.args.initial_connect_string)
          THEN LET w1 == [w EXCEPT !.c.initial_string_buffer =
                                     w.c.args.initial_connect_string]
                   w2 == connector_ref(w1)
               IN grpc_endpoint_write(w2, tcp, w2.c.initial_string_buffer)
          ELSE grpc_handshake_manager_do_handshake(
                 w, tcp, w.c.args.channel_args, w.c.args.deadline, NULL)
     ELSE LET w1 == [w EXCEPT !.slots[w.c.result] = ZeroResult]
              notify == w1.c.notify
              w2 == [w1 EXCEPT !.c.notify = NULL]
          IN grpc_exec_ctx_sched(w2, notify, error)

\* A shutdown that cancels the attempt in flight.
connector_shutdown_cancel(w) ==
  IF w.c.notify = NULL
  THEN w
  ELSE LET notify == w.c.notify
           w1 == [w EXCEPT !.c.notify = NULL]
       IN grpc_exec_ctx_sched(
            w1, notify, [src |-> "shutdown", idx |-> 0, code |-> "cancelled"])

connector_shutdown(w) == w

\* connector_connect without its assertions
connector_connect_no_assert(w, args, result, notify) ==
  LET w1 == [w EXCEPT !.c.notify = notify, !.c.args = args,
                      !.c.result = result, !.c.tcp = NoHandle,
                      !.attempt = @ + 1,
                      !.calls = Append(@, [args |-> args, result |-> result,
                                           notify |-> notify])]
  IN grpc_tcp_client_connect(w1)

connector_connect(w, args, result, notify) ==
  IF w.c.notify # NULL \/ ~closure_cb(notify)
  THEN [w EXCEPT !.aborted = TRUE]
  ELSE LET w1 == [w EXCEPT !.c.notify = notify, !.c.args = args,
                           !.c.result = result, !.c.tcp = NoHandle,
                           !.attempt = @ + 1,
                           !.calls = Append(@, [args |-> args, result |-> result,
                                                notify |-> notify])]
       IN grpc_tcp_client_connect(w1)

\* The raw connect completes: it leaves an endpoint in c->tcp or leaves it
\* null, and calls the connected closure with its error.
tcp_client_connect_done(w, ok, error) ==
  LET ep == IF ok THEN w.attempt ELSE NoHandle
      w1 == LogErr([w EXCEPT !.tcp_pending = FALSE],
                   "tcp_client_connect_done", ep, 0, error)
  IN IF ok
     THEN connected([w1 EXCEPT !.c.tcp = ep, !.endpoints[ep] = "connector"],
                    error)
     ELSE connected(w1, error)

\* The initial-bytes write completes and its closure runs.
endpoint_write_done(w, error) ==
  LET w1 == LogErr([w EXCEPT !.write_pending = FALSE],
                   "endpoint_write_done", w.c.tcp, 0, error)
  IN on_initial_connect_string_sent(w1, error)

\* ---------------------------------------------------------------- client_channel_factory

\* grpc_subchannel_create keeps the connector: it takes a reference on it.
grpc_subchannel_create(w) == connector_ref(w)

\* create_subchannel passing the handshaker's two names in the wrong order
client_channel_factory_create_subchannel_swapped(w, proxy_name, server_name) ==
  LET m0 == grpc_handshake_manager_create
      m1 == IF proxy_name # NULL
            THEN grpc_handshake_manager_add(
                   m0, grpc_http_connect_handshaker_create(server_name, proxy_name))
            ELSE m0
      w1 == [w EXCEPT !.c = [NoConnector EXCEPT !.alloc = "live", !.refs = 1],
                      !.mgr = m1]
      w2 == grpc_subchannel_create(w1)
  IN connector_unref(w2)

\* create_subchannel keeping its creation reference
client_channel_factory_create_subchannel_no_unref(w, proxy_name, server_name) ==
  LET m0 == grpc_handshake_manager_create
      m1 == IF proxy_name # NULL
            THEN grpc_handshake_manager_add(
                   m0, grpc_http_connect_handshaker_create(proxy_name, server_name))
            ELSE m0
      w1 == [w EXCEPT !.c = [NoConnector EXCEPT !.alloc = "live", !.refs = 1],
                      !.mgr = m1]
  IN grpc_subchannel_create(w1)

client_channel_factory_create_subchannel(w, proxy_name, server_name) ==
  LET m0 == grpc_handshake_manager_create
      m1 == IF proxy_name # NULL
            THEN grpc_handshake_manager_add(
                   m0, grpc_http_connect_handshaker_create(proxy_name, server_name))
            ELSE m0
      w1 == [w EXCEPT !.c = [NoConnector EXCEPT !.alloc = "live", !.refs = 1],
                      !.mgr = m1]
      w2 == grpc_subchannel_create(w1)
  IN connector_unref(w2)

\* A channel object, and no channel.
NullChannel == [kind |-> "null", target |-> NULL, status |-> 0, message |-> ""]
ClientChannel(target) ==
  [kind |-> "client", target |-> target, status |-> 0, message |-> ""]

\* grpc_lame_client_channel_create: a channel whose calls fail with error_code.
grpc_lame_client_channel_create(target, error_code, error_message) ==
  [kind |-> "lame", target |-> target, status |-> error_code,
   message |-> error_message]

\* the status a call started on the channel ends with (0 is GRPC_STATUS_OK
\* for a channel that is not lame: the call goes out)
channel_call_status(ch) == IF ch.kind = "lame" THEN ch.status ELSE 0

\* the entry point without its fallback
grpc_insecure_channel_create_no_fallback(target, created) == created

\* created is what client_channel_factory_create_channel returned
grpc_insecure_channel_create(target, created) ==
  IF created # NullChannel
  THEN created
  ELSE grpc_lame_client_channel_create(target, GRPC_STATUS_INTERNAL,
                                       "Failed to create client channel")

\* A connector whose handshake manager holds n handshakers, as a handshaker
\* pipeline longer than the insecure factory's is built.
pipeline_create_connector(w, n) ==
  LET h == [kind |-> "generic", proxy_server |-> NULL, server_name |-> NULL]
      m == [grpc_handshake_manager_create EXCEPT
              !.handshakers = [i \in 1..n |-> h]]
      w1 == [w EXCEPT !.c = [NoConnector EXCEPT !.alloc = "live", !.refs = 1],
                      !.mgr = m]
  IN connector_unref(grpc_subchannel_create(w1))

\* the subchannel: the args it was created with, and whether it still holds
\* its reference on the connector
NoSubchannel == [alloc |-> FALSE, server_name |-> NULL, ref |-> FALSE]

grpc_get_http_proxy_server == http_proxy

\* ---------------------------------------------------------------- actions

Init ==
  /\ c = NoConnector
  /\ mgr = NoManager
  /\ slots \in [Slots -> {ZeroResult, StaleResult}]
  /\ sched = << >>
  /\ transports = << >>
  /\ endpoints = [e \in 1..MaxAttempts |-> "none"]
  /\ events = << >>
  /\ tcp_pending = FALSE
  /\ write_pending = FALSE
  /\ attempt = 0
  /\ calls = << >>
  /\ aborted = FALSE
  /\ subchannel = NoSubchannel
  /\ http_proxy \in ProxyNames
  /\ channel = [called |-> FALSE, created |-> NullChannel, returned |-> NullChannel]
  /\ shutdown_called = FALSE

\* The application creates its channel; grpc_channel_create yields a channel
\* or none.
InsecureChannelCreate ==
  /\ ~aborted
  /\ c.alloc = "none"
  /\ \E target \in Targets :
     \E created \in {NullChannel, ClientChannel(target)} :
       channel' = [called |-> TRUE, created |-> created,
                   returned |-> grpc_insecure_channel_create(target, created)]
  /\ UNCHANGED <<c, mgr, slots, sched, transports, endpoints, events,
                 tcp_pending, write_pending, attempt, calls, aborted,
                 subchannel, http_proxy, shutdown_called>>

\* The client channel asks the factory for a subchannel.
CreateSubchannel ==
  /\ ~aborted
  /\ c.alloc = "none"
  /\ channel.returned.kind = "client"
  /\ \E server_name \in ServerNames :
       /\ SetWorld(client_channel_factory_create_subchannel(
                     World, grpc_get_http_proxy_server, server_name))
       /\ subchannel' = [alloc |-> TRUE, server_name |-> server_name,
                         ref |-> TRUE]
  /\ UNCHANGED <<http_proxy, channel, shutdown_called>>

\* A connector is created with a pipeline of 0..MaxHandshakers handshakers.
CreatePipelineConnector ==
  /\ ~aborted
  /\ c.alloc = "none"
  /\ channel.returned.kind = "client"
  /\ \E n \in 0..MaxHandshakers : SetWorld(pipeline_create_connector(World, n))
  /\ subchannel' = [alloc |-> TRUE, server_name |-> NULL, ref |-> TRUE]
  /\ UNCHANGED <<http_proxy, channel, shutdown_called>>

\* The subchannel calls connect() on its connector.
Connect ==
  /\ ~aborted
  /\ c.alloc = "live"
  /\ attempt < MaxAttempts \/ c.notify # NULL
  /\ \E addr \in Addrs, deadline \in Deadlines, ics \in InitialStrings,
        caller \in Callers :
       SetWorld(connector_connect(
                  World,
                  [addr |-> addr, deadline |-> deadline,
                   initial_connect_string |-> ics,
                   channel_args |-> caller.channel_args,
                   interested_parties |-> "pollset_set"],
                  caller.result, caller.notify))
  /\ UNCHANGED <<subchannel, http_proxy, channel, shutdown_called>>

\* The raw connect completes, with an endpoint or with an error.
TcpConnectDone ==
  /\ ~aborted
  /\ c.alloc = "live"
  /\ tcp_pending
  /\ \/ SetWorld(tcp_client_connect_done(World, TRUE, GRPC_ERROR_NONE))
     \/ \E error \in ConnectErrors :
          SetWorld(tcp_client_connect_done(World, FALSE, error))
  /\ UNCHANGED <<subchannel, http_proxy, channel, shutdown_called>>

\* The initial-bytes write completes, successfully or not.
EndpointWriteDone ==
  /\ ~aborted
  /\ c.alloc = "live"
  /\ write_pending
  /\ \E error \in WriteResults : SetWorld(endpoint_write_done(World, error))
  /\ UNCHANGED <<subchannel, http_proxy, channel, shutdown_called>>

\* The running handshaker completes, successfully or not.
HandshakerDone ==
  /\ ~aborted
  /\ c.alloc = "live"
  /\ mgr.running
  /\ \/ \E leftover \in {<< >>, <<"l">>} :
          SetWorld(handshaker_done(World, TRUE, "ok", leftover))
     \/ \E code \in HandshakeCodes :
          SetWorld(handshaker_done(World, FALSE, code, << >>))
  /\ UNCHANGED <<subchannel, http_proxy, channel, shutdown_called>>

\* The subchannel calls shutdown() on its connector.
Shutdown ==
  /\ ~aborted
  /\ c.alloc = "live"
  /\ SetWorld(connector_shutdown(World))
  /\ shutdown_called' = TRUE
  /\ UNCHANGED <<subchannel, http_proxy, channel>>

\* The subchannel is destroyed and drops its reference; it does so only
\* when it has no connect in flight.
SubchannelDestroy ==
  /\ ~aborted
  /\ c.alloc = "live"
  /\ subchannel.ref
  /\ c.notify = NULL
  /\ ~tcp_pending /\ ~write_pending /\ ~mgr.running
  /\ SetWorld(connector_unref(World))
  /\ subchannel' = [subchannel EXCEPT !.ref = FALSE]
  /\ UNCHANGED <<http_proxy, channel, shutdown_called>>

Callbacks == TcpConnectDone \/ EndpointWriteDone \/ HandshakerDone

Next ==
  \/ InsecureChannelCreate
  \/ CreateSubchannel
  \/ Connect
  \/ TcpConnectDone
  \/ EndpointWriteDone
  \/ HandshakerDone
  \/ Shutdown
  \/ SubchannelDestroy

Spec == Init /\ [][Next]_vars

\* Every outstanding completion is eventually delivered: the raw connect and
\* the handshakers are bounded by the deadline, and the exec_ctx runs every
\* closure it is given.
Fairness ==
  /\ WF_vars(TcpConnectDone)
  /\ WF_vars(EndpointWriteDone)
  /\ WF_vars(HandshakerDone)

LiveSpec == Spec /\ Fairness

NextPipeline ==
  \/ InsecureChannelCreate
  \/ CreatePipelineConnector
  \/ Connect
  \/ TcpConnectDone
  \/ EndpointWriteDone
  \/ HandshakerDone
  \/ Shutdown
  \/ SubchannelDestroy

PipelineSpec == Init /\ [][NextPipeline]_vars

\* The owner drops its reference whenever it likes, an attempt in flight or
\* not: connector_connect takes no reference of its own.
SubchannelUnref ==
  /\ ~aborted
  /\ c.alloc = "live"
  /\ subchannel.ref
  /\ SetWorld(connector_unref(World))
  /\ subchannel' = [subchannel EXCEPT !.ref = FALSE]
  /\ UNCHANGED <<http_proxy, channel, shutdown_called>>

\* A completion is delivered to a connector that has been freed: the handler
\* reads and writes freed memory. The process crashes, or the memory still
\* holds the connector and the handler runs as it would on a live one.
UseAfterFree ==
  /\ ~aborted
  /\ c.alloc = "freed"
  /\ \/ /\ tcp_pending \/ write_pending \/ mgr.running
        /\ SetWorld([World EXCEPT !.aborted = TRUE])
     \/ /\ tcp_pending
        /\ \/ SetWorld(tcp_client_connect_done(World, TRUE, GRPC_ERROR_NONE))
           \/ \E error \in ConnectErrors :
                SetWorld(tcp_client_connect_done(World, FALSE, error))
     \/ /\ write_pending
        /\ \E error \in WriteResults :
             SetWorld(endpoint_write_done(World, error))
     \/ /\ mgr.running
        /\ \/ \E leftover \in {<< >>, <<"l">>} :
                SetWorld(handshaker_done(World, TRUE, "ok", leftover))
           \/ \E code \in HandshakeCodes :
                SetWorld(handshaker_done(World, FALSE, code, << >>))
  /\ UNCHANGED <<subchannel, http_proxy, channel, shutdown_called>>

NextRelease ==
  \/ InsecureChannelCreate
  \/ CreateSubchannel
  \/ Connect
  \/ TcpConnectDone
  \/ EndpointWriteDone
  \/ HandshakerDone
  \/ Shutdown
  \/ SubchannelUnref
  \/ UseAfterFree

ReleaseSpec == Init /\ [][NextRelease]_vars

\* ---------------------------------------------------------------- properties

\* how many times a notify was scheduled for attempt a
NotifyCount(a) == Cardinality({j \in 1..Len(sched) : sched[j].att = a})

\* the calls of attempt a to the collaborators named in ops
EventsOf(a, ops) ==
  {i \in 1..Len(events) : events[i].att = a /\ events[i].op \in ops}

HandshakeOps == {"do_handshake", "handshaker_start", "handshaker_write"}

\* the raw connect of attempt a produced an endpoint
TcpSucceeded(a) ==
  \E i \in 1..Len(events) :
    /\ events[i].op = "tcp_client_connect_done"
    /\ events[i].att = a
    /\ events[i].ep # NoHandle

\* attempt a was notified of success, with a transport on its endpoint and
\* the caller's channel args in the result slot
Delivered(a) ==
  \E j \in 1..Len(sched) :
    /\ sched[j].att = a
    /\ sched[j].error = GRPC_ERROR_NONE
    /\ sched[j].result.transport \in 1..Len(transports)
    /\ \E i \in EventsOf(a, {"tcp_client_connect_done"}) :
         transports[sched[j].result.transport].endpoint = events[i].ep
    /\ sched[j].result.channel_args = calls[a].args.channel_args

\* C1: for every accepted connect() call, whatever the outcomes of the raw
\* connect, the initial write and the handshake, notify is scheduled exactly
\* once: never twice, and an attempt not yet notified always has a completion
\* outstanding that leads to its notification (unless the process aborted).
C1_NotifyExactlyOnce ==
  \A a \in 1..attempt :
    /\ NotifyCount(a) <= 1
    /\ NotifyCount(a) = 0 => (aborted \/ ENABLED Callbacks)

\* C2: grpc_insecure_channel_create never returns a null channel: when
\* create_channel returns none it returns a lame channel whose calls fail
\* with GRPC_STATUS_INTERNAL, otherwise the channel create_channel returned.
C2_NeverNullChannel ==
  channel.called =>
    /\ channel.returned # NullChannel
    /\ channel.created = NullChannel =>
         /\ channel.returned.kind = "lame"
         /\ channel_call_status(channel.returned) = GRPC_STATUS_INTERNAL
    /\ channel.created # NullChannel => channel.returned = channel.created

C2_Witness ==
  /\ channel.called
  /\ channel.created = NullChannel
  /\ channel.returned.kind = "lame"

\* C3: when the raw connect completes without an endpoint, the result slot is
\* zeroed, neither the initial write nor the handshake is started, and notify
\* is scheduled (once) with the error the raw connect reported.
C3_ConnectFailure ==
  \A i \in 1..Len(events) :
    (events[i].op = "tcp_client_connect_done" /\ events[i].ep = NoHandle) =>
      LET a == events[i].att
      IN /\ EventsOf(a, HandshakeOps \cup {"endpoint_write", "create_transport"}) = {}
         /\ NotifyCount(a) = 1
         /\ \E j \in 1..Len(sched) :
              /\ sched[j].att = a
              /\ sched[j].closure = calls[a].notify
              /\ sched[j].error = events[i].err
              /\ sched[j].slot = calls[a].result
              /\ sched[j].result = ZeroResult

C3_Witness ==
  \E j \in 1..Len(sched) :
    /\ sched[j].error \in ConnectErrors
    /\ sched[j].result = ZeroResult
    /\ sched[j].closure = calls[sched[j].att].notify

\* C4: whenever notify is scheduled with an error, the result slot at that
\* moment is empty, whatever it held before the attempt.
C4_ErrorMeansEmptyResult ==
  \A j \in 1..Len(sched) :
    sched[j].error # GRPC_ERROR_NONE => sched[j].result = ZeroResult

\* C5: when the handshake reports an error, no transport is created and no
\* reading is started, the channel args and the read buffer are released
\* exactly once each, and notify is scheduled with that error.
C5_HandshakeFailure ==
  \A i \in 1..Len(events) :
    (events[i].op = "handshaker_done" /\ events[i].err # GRPC_ERROR_NONE) =>
      LET a == events[i].att
      IN /\ EventsOf(a, {"create_transport", "start_reading"}) = {}
         /\ Cardinality(EventsOf(a, {"channel_args_destroy"})) = 1
         /\ Cardinality(EventsOf(a, {"free_read_buffer"})) = 1
         /\ NotifyCount(a) = 1
         /\ \E j \in 1..Len(sched) :
              /\ sched[j].att = a
              /\ sched[j].closure = calls[a].notify
              /\ sched[j].error = events[i].err

C5_Witness ==
  \E i \in 1..Len(events) :
    /\ events[i].op = "handshaker_done"
    /\ events[i].err # GRPC_ERROR_NONE
    /\ Cardinality(EventsOf(events[i].att, {"free_read_buffer"})) = 1

\* C6: an attempt whose raw connect succeeds and whose pipeline is empty is
\* notified with no error, the result slot holding a transport on the raw
\* connect's endpoint and the caller's own channel args.
C6_EmptyPipelineDelivers ==
  \A a \in 1..attempt :
    (TcpSucceeded(a) /\ Len(mgr.handshakers) = 0) =>
      (Delivered(a) \/ aborted \/ ENABLED Callbacks)

\* C7: when handshaker k of a pipeline is the first to fail, no later
\* handshaker is started, the endpoint is closed, no transport is created and
\* notify gets handshaker k's error.
C7_PipelineFailure ==
  \A i \in 1..Len(events) :
    (events[i].op = "handshaker_done" /\ events[i].err # GRPC_ERROR_NONE) =>
      LET a == events[i].att
          k == events[i].k
      IN /\ \A j \in EventsOf(a, {"handshaker_start"}) : events[j].k <= k
         /\ \E j \in EventsOf(a, {"endpoint_close"}) : events[j].ep = events[i].ep
         /\ endpoints[events[i].ep] = "closed"
         /\ EventsOf(a, {"create_transport"}) = {}
         /\ NotifyCount(a) = 1
         /\ \E j \in 1..Len(sched) :
              /\ sched[j].att = a
              /\ sched[j].error.src = "handshaker"
              /\ sched[j].error.idx = k
              /\ sched[j].error = events[i].err

C7_Witness ==
  \E i \in 1..Len(events) :
    /\ events[i].op = "handshaker_done"
    /\ events[i].err # GRPC_ERROR_NONE
    /\ events[i].k = 1
    /\ Len(mgr.handshakers) >= 2
    /\ NotifyCount(events[i].att) = 1

\* C8: in an attempt with a non-empty initial_connect_string, everything the
\* handshake does on the endpoint comes after the write of those bytes was
\* issued and completed.
C8_InitialBytesFirst ==
  \A a \in 1..attempt :
    ~GRPC_SLICE_IS_EMPTY(calls[a].args.initial_connect_string) =>
      \A j \in EventsOf(a, HandshakeOps) :
        \E i \in EventsOf(a, {"endpoint_write"}) :
          \E d \in EventsOf(a, {"endpoint_write_done"}) : i < d /\ d < j

C8_Witness ==
  \E a \in 1..attempt :
    /\ ~GRPC_SLICE_IS_EMPTY(calls[a].args.initial_connect_string)
    /\ EventsOf(a, {"endpoint_write"}) # {}
    /\ EventsOf(a, {"endpoint_write_done"}) # {}

\* C9: a connect() call made while the previous attempt has not scheduled its
\* notify fails an assertion and overwrites nothing; a connect() call made
\* after the previous attempt's notify was scheduled is accepted.
C9_ReentrantConnectRejected ==
  [][Connect =>
       IF attempt >= 1 /\ NotifyCount(attempt) = 0
       THEN /\ aborted'
            /\ c' = c
            /\ slots' = slots
            /\ calls' = calls
            /\ attempt' = attempt
            /\ events' = events
       ELSE /\ ~aborted'
            /\ attempt' = attempt + 1
            /\ tcp_pending'
            /\ c'.notify = calls'[attempt'].notify
            /\ c'.result = calls'[attempt'].result
            /\ c'.args = calls'[attempt'].args]_vars

C9_Witness ==
  /\ aborted
  /\ attempt >= 2
  /\ NotifyCount(1) = 1
  /\ NotifyCount(attempt) = 0

\* C10: the handshake manager of a connector made by create_subchannel holds
\* exactly one HTTP CONNECT handshaker, with the proxy address found and the
\* subchannel's server name, when a proxy is found, and none otherwise.
C10_ProxyHandshaker ==
  c.alloc = "live" =>
    mgr.handshakers =
      IF http_proxy # NULL
      THEN <<[kind |-> "http_connect", proxy_server |-> http_proxy,
              server_name |-> subchannel.server_name]>>
      ELSE << >>

C10_Witness ==
  /\ c.alloc = "live"
  /\ http_proxy # NULL
  /\ Len(mgr.handshakers) = 1
  /\ mgr.runs >= 1

\* C11: a shutdown() call, in whatever state the connector is, changes no field
\* of the connector (its reference count included), nothing of the handshake
\* manager, of the result slots, of the outstanding operations or of the
\* scheduled completions: the attempt in flight goes on as if shutdown() had
\* not been called.
C11_ShutdownChangesNothing ==
  [][Shutdown =>
       /\ c' = c
       /\ mgr' = mgr
       /\ slots' = slots
       /\ sched' = sched
       /\ transports' = transports
       /\ endpoints' = endpoints
       /\ events' = events
       /\ tcp_pending' = tcp_pending
       /\ write_pending' = write_pending
       /\ attempt' = attempt
       /\ calls' = calls
       /\ aborted' = aborted
       /\ subchannel' = subchannel]_vars

\* shutdown() was called and an attempt has still been delivered a transport.
C11_Witness ==
  /\ shutdown_called
  /\ attempt >= 1
  /\ NotifyCount(attempt) = 1
  /\ \E j \in 1..Len(sched) :
       sched[j].att = attempt /\ sched[j].error = GRPC_ERROR_NONE

\* C12: once the write of a non-empty initial_connect_string has completed,
\* with or without error, the connector starts the handshake manager on the
\* endpoint of that attempt (or a completion that will do so is still
\* outstanding): the attempt reaches Handshaking.
C12_WriteThenHandshake ==
  \A i \in 1..Len(events) :
    events[i].op = "endpoint_write_done" =>
      \/ \E j \in (i + 1)..Len(events) :
           /\ events[j].op = "do_handshake"
           /\ events[j].att = events[i].att
      \/ ENABLED Callbacks

\* C13: while a raw-connect, initial-write or handshake completion is
\* outstanding the connector is allocated with a positive reference count,
\* and while a handshaker is running the handshake manager is not destroyed,
\* whenever the owner drops its own reference.
C13_AliveWhileCallbackOutstanding ==
  /\ (tcp_pending \/ write_pending \/ mgr.running) =>
       (c.alloc = "live" /\ c.refs > 0)
  /\ mgr.running => mgr.alloc = "live"

\* the handshake of attempt a completed without error
HandshakeSucceeded(a) ==
  \E i \in EventsOf(a, {"on_done"}) : events[i].err = GRPC_ERROR_NONE

\* the steps of the success path of attempt a
SuccessOps ==
  {"create_transport", "start_reading", "store_transport",
   "store_channel_args", "exec_ctx_sched"}

\* the position of the one call of attempt a to op
EventAt(a, op) == CHOOSE i \in EventsOf(a, {op}) : TRUE

\* each step of the success path was taken exactly once, on the endpoint the
\* handshake returned and with the bytes it left unread
SuccessStepsOnce(a) ==
  /\ \A op \in SuccessOps : Cardinality(EventsOf(a, {op})) = 1
  /\ events[EventAt(a, "create_transport")].ep = events[EventAt(a, "on_done")].ep
  /\ events[EventAt(a, "start_reading")].ep = events[EventAt(a, "on_done")].ep
  /\ \E t \in 1..Len(transports) :
       /\ transports[t].endpoint = events[EventAt(a, "on_done")].ep
       /\ transports[t].reading
       /\ Len(transports[t].read_buffer) = events[EventAt(a, "on_done")].k
  /\ events[EventAt(a, "exec_ctx_sched")].err = GRPC_ERROR_NONE

\* notify is never scheduled with no error while the slot lacks a transport
SuccessHasTransport ==
  \A j \in 1..Len(sched) :
    sched[j].error = GRPC_ERROR_NONE =>
      /\ sched[j].result.transport \in 1..Len(transports)
      /\ transports[sched[j].result.transport].reading
      /\ sched[j].result.channel_args = calls[sched[j].att].args.channel_args

\* C14: on handshake success the connector, in this order and each exactly
\* once, constructs the transport over the final endpoint, starts it reading
\* with the bytes the handshake left unread, stores the transport and the
\* negotiated options in the result slot, and only then schedules notify with
\* no error; notify is never scheduled with no error while the slot lacks a
\* transport.
C14_SuccessOrder ==
  /\ \A a \in 1..attempt :
       HandshakeSucceeded(a) =>
         /\ SuccessStepsOnce(a)
         /\ EventAt(a, "create_transport") < EventAt(a, "start_reading")
         /\ EventAt(a, "start_reading") < EventAt(a, "store_transport")
         /\ EventAt(a, "start_reading") < EventAt(a, "store_channel_args")
         /\ EventAt(a, "store_transport") < EventAt(a, "exec_ctx_sched")
         /\ EventAt(a, "store_channel_args") < EventAt(a, "exec_ctx_sched")
  /\ SuccessHasTransport

\* C14, amended: the transport is stored in the result slot as soon as it is
\* constructed, before it is started reading; the negotiated options are
\* stored after; notify is scheduled last, with no error. Each step happens
\* exactly once, and notify is never scheduled with no error while the slot
\* lacks a transport.
C14_SuccessOrderAmended ==
  /\ \A a \in 1..attempt :
       HandshakeSucceeded(a) =>
         /\ SuccessStepsOnce(a)
         /\ EventAt(a, "create_transport") < EventAt(a, "store_transport")
         /\ EventAt(a, "store_transport") < EventAt(a, "start_reading")
         /\ EventAt(a, "start_reading") < EventAt(a, "store_channel_args")
         /\ EventAt(a, "store_channel_args") < EventAt(a, "exec_ctx_sched")
  /\ SuccessHasTransport

\* a handshake that left bytes unread succeeded and its attempt was notified
C14_Witness ==
  \E a \in 1..attempt :
    /\ HandshakeSucceeded(a)
    /\ events[EventAt(a, "on_done")].k > 0
    /\ NotifyCount(a) = 1

\* C15: whenever a completion is scheduled the stored notify pointer has
\* already been set to NULL; and the stored pointer is non-NULL exactly while
\* an attempt is in flight, that is, accepted and not yet scheduled its
\* completion.
C15_NotifyPointer ==
  /\ \A j \in 1..Len(sched) : sched[j].stored = NULL
  /\ c.alloc # "none" =>
       ((c.notify # NULL) = (attempt >= 1 /\ NotifyCount(attempt) = 0))

\* one attempt ended in failure and one in success, and the pointer is NULL
C15_Witness ==
  /\ c.notify = NULL
  /\ \E i, j \in 1..Len(sched) :
       /\ sched[i].error # GRPC_ERROR_NONE
       /\ sched[j].error = GRPC_ERROR_NONE

\* C16: over the life of a connector, successive accepted connect() calls
\* included, the handshake manager is started by do_handshake at most once.
C16_HandshakeAtMostOnce ==
  /\ mgr.runs <= 1
  /\ Cardinality({i \in 1..Len(events) : events[i].op = "do_handshake"}) <= 1

\* C17: the reference count goes up by exactly one in the step that issues an
\* initial-bytes write and down by exactly one in the step in which that
\* write completes, with or without error; no other step of an attempt
\* changes it; so while the connector is live the count is the owner's
\* reference plus one per outstanding write, and after the write completes
\* it is what it was before the write was issued.
C17_RefCountAroundWrite ==
  /\ [][/\ (~write_pending /\ write_pending') => c'.refs = c.refs + 1
        /\ (write_pending /\ ~write_pending') => c'.refs = c.refs - 1
        /\ (/\ write_pending' = write_pending
            /\ c.alloc = "live"
            /\ subchannel' = subchannel) => c'.refs = c.refs]_vars
  /\ [](c.alloc = "live" => c.refs = 1 + (IF write_pending THEN 1 ELSE 0))

\* a write has completed with an error and the count is back to one
C17_Witness ==
  /\ c.alloc = "live"
  /\ c.refs = 1
  /\ ~write_pending
  /\ \E i \in 1..Len(events) :
       /\ events[i].op = "endpoint_write_done"
       /\ events[i].err # GRPC_ERROR_NONE

\* the calls to grpc_handshake_manager_destroy
ManagerDestroys ==
  {i \in 1..Len(events) : events[i].op = "handshake_manager_destroy"}

\* every attempt made ended with a failed raw connect that was notified
AllAttemptsUnreachable ==
  /\ attempt >= 1
  /\ \A a \in 1..attempt :
       /\ NotifyCount(a) = 1
       /\ \E j \in 1..Len(sched) :
            sched[j].att = a /\ sched[j].error \in ConnectErrors

\* C18: the handshake manager is destroyed and the connector freed exactly
\* once, in the step in which the reference count reaches zero and not before;
\* once every holder has released (the factory's creation reference is
\* dropped in create_subchannel, the owner's when it is destroyed) the count
\* is zero; and after attempts to an unreachable address nothing remains
\* allocated: no connector, no manager, no endpoint, no transport.
C18_FreedExactlyAtZero ==
  /\ c.alloc = "live" =>
       (c.refs > 0 /\ mgr.alloc = "live" /\ ManagerDestroys = {})
  /\ c.alloc = "freed" =>
       (c.refs = 0 /\ mgr.alloc = "destroyed" /\ Cardinality(ManagerDestroys) = 1)
  /\ (subchannel.alloc /\ ~subchannel.ref) => (c.alloc = "freed" /\ c.refs = 0)
  /\ (AllAttemptsUnreachable /\ subchannel.alloc /\ ~subchannel.ref) =>
       /\ transports = << >>
       /\ \A e \in DOMAIN endpoints : endpoints[e] = "none"

\* a connector whose attempts all failed to connect has been released
C18_Witness ==
  /\ AllAttemptsUnreachable
  /\ subchannel.alloc
  /\ ~subchannel.ref
  /\ c.alloc = "freed"

\* C19: at most one of the raw connect, the initial-bytes write and the
\* handshake pipeline is outstanding at any time; within an attempt each
\* stage is started at most once and only in the order connect, write,
\* handshake: the write and the handshake start after the raw connect has
\* produced the endpoint, and the handshake starts only after a write that
\* was issued has completed.
C19_OneStageAtATime ==
  /\ ~(tcp_pending /\ write_pending)
  /\ ~(tcp_pending /\ mgr.running)
  /\ ~(write_pending /\ mgr.running)
  /\ \A a \in 1..attempt :
       /\ Cardinality(EventsOf(a, {"tcp_client_connect"})) = 1
       /\ Cardinality(EventsOf(a, {"endpoint_write"})) <= 1
       /\ Cardinality(EventsOf(a, {"do_handshake"})) <= 1
       /\ \A i \in EventsOf(a, {"endpoint_write", "do_handshake"}) :
            \E d \in EventsOf(a, {"tcp_client_connect_done"}) :
              /\ d < i
              /\ events[d].ep = events[i].ep
              /\ \E s \in EventsOf(a, {"tcp_client_connect"}) : s < d
       /\ \A i \in EventsOf(a, {"endpoint_write"}) :
            \A j \in EventsOf(a, {"do_handshake"}) :
              \E d \in EventsOf(a, {"endpoint_write_done"}) : i < d /\ d < j

\* a second attempt has its handshake outstanding, and nothing else
C19_Witness ==
  /\ attempt = 2
  /\ NotifyCount(1) = 1
  /\ mgr.running
  /\ ~tcp_pending
  /\ ~write_pending

\* once an endpoint has been handed on, the connector holds no reference to it
NoReferenceAfterHandOff ==
  \A e \in DOMAIN endpoints :
    endpoints[e] \in {"handshake_mgr", "transport", "closed"} => c.tcp # e

\* an endpoint stays with the connector only while the attempt still has a
\* completion outstanding
EndpointNotLeftWithConnector ==
  \A e \in DOMAIN endpoints :
    endpoints[e] = "connector" => (aborted \/ ENABLED Callbacks)

\* C20: every endpoint the raw connect produced has one owner among the
\* connector, the handshake manager and the transport: once it has been
\* passed to do_handshake (and from there to a transport, or closed) the
\* connector no longer holds a reference to it, and an attempt ends with its
\* endpoint owned by the transport or closed, never left with the connector.
C20_EndpointSingleOwner ==
  /\ NoReferenceAfterHandOff
  /\ EndpointNotLeftWithConnector

====
